---- MODULE Spec2Model ----
(***************************************************************************)
(* A model of the 2x2x2 cube and its IDA* solver (src/RubiksSolver.cpp).   *)
(* The cube is the 6 x 2 x 2 array _matrix, the rotation log _rotations    *)
(* and the search fields of class Cube; the search is unrolled into one    *)
(* step per node event of idaStarRecursive.                                *)
(***************************************************************************)
EXTENDS Integers, Sequences, FiniteSets, Bags, TLC

(* ---------------- enums (src/RubiksSolver.cpp:5-7) ---------------- *)
RED == 0
BLUE == 1
ORANGE == 2
GREEN == 3
WHITE == 4
YELLOW == 5
UNDEFINED == 6
Color == RED..UNDEFINED

TOP == 0
FRONT == 1
RIGHT == 2
BOTTOM == 3
BACK == 4
LEFT == 5
NONE == 6
Faces == TOP..LEFT

U == 0
D == 1
R == 2
L == 3
F == 4
B == 5
UI == 6
DI == 7
RI == 8
LI == 9
FI == 10
BI == 11
ROTATION_NONE == 12
Rotation == U..BI

(* dimensions of Cube222 *)
cRow == 2
cCol == 2
cFace == 6

(* ---------------- bounds of the model ---------------- *)
\* longest log built by single applyRotation calls before the search
MaxScramble == 1
\* largest depth bound whose pass is explored
MaxDepthLimit == 2

(* ---------------- lookup tables (0-based arrays as functions) -------- *)
inverseRotation ==
    [r \in U..ROTATION_NONE |->
        CASE r = U -> UI [] r = D -> DI [] r = R -> RI [] r = L -> LI
          [] r = F -> FI [] r = B -> BI [] r = UI -> U [] r = DI -> D
          [] r = RI -> R [] r = LI -> L [] r = FI -> F [] r = BI -> B
          [] OTHER -> ROTATION_NONE]

rotationAxis ==
    [r \in U..ROTATION_NONE |->
        CASE r \in {U, D, UI, DI} -> 0
          [] r \in {R, L, RI, LI} -> 1
          [] r \in {F, B, FI, BI} -> 2
          [] OTHER -> -1]

rotationBaseFace ==
    [r \in U..ROTATION_NONE |-> IF r = ROTATION_NONE THEN -1 ELSE r % 6]

\* the fixed order in which idaStarRecursive tries the rotations
allRotations == <<U, D, R, L, F, B, UI, DI, RI, LI, FI, BI>>

(* ---------------- the sticker array ---------------- *)
Rows == 0..(cRow - 1)
Cols == 0..(cCol - 1)
Matrices == [Faces -> [Rows -> [Cols -> Color]]]

\* _matrix[f][i][j] = c
SetCell(m, f, i, j, c) == [m EXCEPT ![f][i][j] = c]
\* _matrix[f][i] = row  (vector assignment copies the row)
SetRowOf(m, f, i, row) == [m EXCEPT ![f][i] = row]

\* setColor(face, color): every cell of the face
setColorFace(m, f, c) == [m EXCEPT ![f] = [i \in Rows |-> [j \in Cols |-> c]]]

\* setColor(face, colors) that flattens the cells column by column
setColorList_columnMajor(m, face, colors) ==
    [m EXCEPT ![face] =
        [i \in Rows |-> [j \in Cols |->
            IF j * cRow + i < Len(colors) THEN colors[j * cRow + i + 1] ELSE m[face][i][j]]]]

\* setColor(face, colors): cell (i, j) gets colors[i * _cCol + j] if the list has it
setColorList(m, face, colors) ==
    [m EXCEPT ![face] =
        [i \in Rows |-> [j \in Cols |->
            IF i * cCol + j < Len(colors) THEN colors[i * cCol + j + 1] ELSE m[face][i][j]]]]

\* the constructor followed by setColorsToInitState()
DefaultCube ==
    LET m0 == [f \in Faces |-> [i \in Rows |-> [j \in Cols |-> WHITE]]]
        m1 == setColorFace(m0, FRONT, BLUE)
        m2 == setColorFace(m1, RIGHT, RED)
        m3 == setColorFace(m2, TOP, YELLOW)
        m4 == setColorFace(m3, BOTTOM, WHITE)
        m5 == setColorFace(m4, BACK, GREEN)
    IN  setColorFace(m5, LEFT, ORANGE)

(* ---------------- rotations ---------------- *)
\* Cube222::rotateFace: a quarter turn of the 4 cells of one face
rotateFace(m, face, clockwise) ==
    IF clockwise
    THEN LET temp == m[face][0][0]
             m1 == SetCell(m, face, 0, 0, m[face][1][0])
             m2 == SetCell(m1, face, 1, 0, m1[face][1][1])
             m3 == SetCell(m2, face, 1, 1, m2[face][0][1])
         IN  SetCell(m3, face, 0, 1, temp)
    ELSE LET temp == m[face][0][0]
             m1 == SetCell(m, face, 0, 0, m[face][0][1])
             m2 == SetCell(m1, face, 0, 1, m1[face][1][1])
             m3 == SetCell(m2, face, 1, 1, m2[face][1][0])
         IN  SetCell(m3, face, 1, 0, temp)

\* RowsU without the write of tempRow: LEFT's row is taken from the overwritten FRONT
RowsU_lostTemp(m) ==
    LET m1 == SetRowOf(m, FRONT, 0, m[RIGHT][0])
        m2 == SetRowOf(m1, RIGHT, 0, m1[BACK][0])
        m3 == SetRowOf(m2, BACK, 0, m2[LEFT][0])
    IN  SetRowOf(m3, LEFT, 0, m3[FRONT][0])

\* r == U: the top rows of the four side faces
RowsU(m) ==
    LET tempRow == m[FRONT][0]
        m1 == SetRowOf(m, FRONT, 0, m[RIGHT][0])
        m2 == SetRowOf(m1, RIGHT, 0, m1[BACK][0])
        m3 == SetRowOf(m2, BACK, 0, m2[LEFT][0])
    IN  SetRowOf(m3, LEFT, 0, tempRow)

\* r == UI
RowsUI(m) ==
    LET tempRow == m[FRONT][0]
        m1 == SetRowOf(m, FRONT, 0, m[LEFT][0])
        m2 == SetRowOf(m1, LEFT, 0, m1[BACK][0])
        m3 == SetRowOf(m2, BACK, 0, m2[RIGHT][0])
    IN  SetRowOf(m3, RIGHT, 0, tempRow)

\* r == D that carries the bottom rows the way r == U carries the top rows
RowsD_sameWayAsU(m) ==
    LET tempRow == m[FRONT][1]
        m1 == SetRowOf(m, FRONT, 1, m[RIGHT][1])
        m2 == SetRowOf(m1, RIGHT, 1, m1[BACK][1])
        m3 == SetRowOf(m2, BACK, 1, m2[LEFT][1])
    IN  SetRowOf(m3, LEFT, 1, tempRow)

\* r == D: the bottom rows of the four side faces
RowsD(m) ==
    LET tempRow == m[FRONT][1]
        m1 == SetRowOf(m, FRONT, 1, m[LEFT][1])
        m2 == SetRowOf(m1, LEFT, 1, m1[BACK][1])
        m3 == SetRowOf(m2, BACK, 1, m2[RIGHT][1])
    IN  SetRowOf(m3, RIGHT, 1, tempRow)

\* r == DI
RowsDI(m) ==
    LET tempRow == m[FRONT][1]
        m1 == SetRowOf(m, FRONT, 1, m[RIGHT][1])
        m2 == SetRowOf(m1, RIGHT, 1, m1[BACK][1])
        m3 == SetRowOf(m2, BACK, 1, m2[LEFT][1])
    IN  SetRowOf(m3, LEFT, 1, tempRow)

\* one iteration i of the loop of r == L; tempColumn is TOP's column 0
ColL(m, i, tempColumn) ==
    LET m1 == SetCell(m, TOP, i, 0, m[BACK][1 - i][1])
        m2 == SetCell(m1, BACK, 1 - i, 1, m1[BOTTOM][i][0])
        m3 == SetCell(m2, BOTTOM, i, 0, m2[FRONT][i][0])
    IN  SetCell(m3, FRONT, i, 0, tempColumn[i])

\* one iteration of the loop of r == LI
ColLI(m, i, tempColumn) ==
    LET m1 == SetCell(m, TOP, i, 0, m[FRONT][i][0])
        m2 == SetCell(m1, FRONT, i, 0, m1[BOTTOM][i][0])
        m3 == SetCell(m2, BOTTOM, i, 0, m2[BACK][1 - i][1])
    IN  SetCell(m3, BACK, 1 - i, 1, tempColumn[i])

\* the loop of r == R that carries the column the way r == RI does
ColR_reversed(m, i, tempColumn) ==
    LET m1 == SetCell(m, TOP, i, 1, m[BACK][1 - i][0])
        m2 == SetCell(m1, BACK, 1 - i, 0, m1[BOTTOM][i][1])
        m3 == SetCell(m2, BOTTOM, i, 1, m2[FRONT][i][1])
    IN  SetCell(m3, FRONT, i, 1, tempColumn[i])

\* one iteration of the loop of r == R; tempColumn is TOP's column 1
ColR(m, i, tempColumn) ==
    LET m1 == SetCell(m, TOP, i, 1, m[FRONT][i][1])
        m2 == SetCell(m1, FRONT, i, 1, m1[BOTTOM][i][1])
        m3 == SetCell(m2, BOTTOM, i, 1, m2[BACK][1 - i][0])
    IN  SetCell(m3, BACK, 1 - i, 0, tempColumn[i])

\* the loop of r == RI that reads tempColumn after TOP's column was overwritten
ColRI_lostTemp(m, i, tempColumn) ==
    LET m1 == SetCell(m, TOP, i, 1, m[BACK][1 - i][0])
        m2 == SetCell(m1, BACK, 1 - i, 0, m1[BOTTOM][i][1])
        m3 == SetCell(m2, BOTTOM, i, 1, m2[FRONT][i][1])
    IN  SetCell(m3, FRONT, i, 1, m3[TOP][i][1])

\* one iteration of the loop of r == RI
ColRI(m, i, tempColumn) ==
    LET m1 == SetCell(m, TOP, i, 1, m[BACK][1 - i][0])
        m2 == SetCell(m1, BACK, 1 - i, 0, m1[BOTTOM][i][1])
        m3 == SetCell(m2, BOTTOM, i, 1, m2[FRONT][i][1])
    IN  SetCell(m3, FRONT, i, 1, tempColumn[i])

\* one iteration of the loop of r == F; tempTop is TOP's row cRow - 1
EdgeF(m, i, tempTop) ==
    LET m1 == SetCell(m, TOP, cRow - 1, i, m[LEFT][cCol - 1 - i][cRow - 1])
        m2 == SetCell(m1, LEFT, cCol - 1 - i, cRow - 1, m1[BOTTOM][0][i])
        m3 == SetCell(m2, BOTTOM, 0, i, m2[RIGHT][i][0])
    IN  SetCell(m3, RIGHT, i, 0, tempTop[cCol - 1 - i])

\* one iteration of the loop of r == FI
EdgeFI(m, i, tempTop) ==
    LET m1 == SetCell(m, TOP, cRow - 1, i, m[RIGHT][i][0])
        m2 == SetCell(m1, RIGHT, i, 0, m1[BOTTOM][0][cCol - 1 - i])
        m3 == SetCell(m2, BOTTOM, 0, cCol - 1 - i, m2[LEFT][cCol - 1 - i][cRow - 1])
    IN  SetCell(m3, LEFT, cCol - 1 - i, cRow - 1, tempTop[i])

\* one iteration of the loop of r == B; tempTop is TOP's row 0
EdgeB(m, i, tempTop) ==
    LET m1 == SetCell(m, TOP, 0, i, m[LEFT][cCol - 1 - i][0])
        m2 == SetCell(m1, LEFT, cCol - 1 - i, 0, m1[BOTTOM][cRow - 1][cCol - 1 - i])
        m3 == SetCell(m2, BOTTOM, cRow - 1, cCol - 1 - i, m2[RIGHT][i][cRow - 1])
    IN  SetCell(m3, RIGHT, i, cRow - 1, tempTop[cCol - 1 - i])

\* one iteration of the loop of r == BI
EdgeBI(m, i, tempTop) ==
    LET m1 == SetCell(m, TOP, 0, i, m[RIGHT][i][cRow - 1])
        m2 == SetCell(m1, RIGHT, i, cRow - 1, m1[BOTTOM][cRow - 1][cCol - 1 - i])
        m3 == SetCell(m2, BOTTOM, cRow - 1, cCol - 1 - i, m2[LEFT][cCol - 1 - i][0])
    IN  SetCell(m3, LEFT, cCol - 1 - i, 0, tempTop[i])

\* the face whose own cells applyRotationInternal hands to rotateFace
turnedFace(r) ==
    CASE r \in {U, UI} -> TOP
      [] r \in {D, DI} -> BOTTOM
      [] r \in {L, LI} -> LEFT
      [] r \in {R, RI} -> RIGHT
      [] r \in {F, FI} -> FRONT
      [] r \in {B, BI} -> BACK

\* Cube222::applyRotationInternal: the face turn, then the side cycle;
\* the loops run i = 0 and then i = 1 on the array as it then stands
applyRotationInternal(m, r) ==
    CASE r = U  -> RowsU(rotateFace(m, TOP, TRUE))
      [] r = UI -> RowsUI(rotateFace(m, TOP, FALSE))
      [] r = D  -> RowsD(rotateFace(m, BOTTOM, TRUE))
      [] r = DI -> RowsDI(rotateFace(m, BOTTOM, FALSE))
      [] r \in {L, LI} ->
            LET mf == rotateFace(m, LEFT, r = L)
                tempColumn == [i \in Rows |-> mf[TOP][i][0]]
            IN  IF r = L
                THEN ColL(ColL(mf, 0, tempColumn), 1, tempColumn)
                ELSE ColLI(ColLI(mf, 0, tempColumn), 1, tempColumn)
      [] r \in {R, RI} ->
            LET mf == rotateFace(m, RIGHT, r = R)
                tempColumn == [i \in Rows |-> mf[TOP][i][1]]
            IN  IF r = R
                THEN ColR(ColR(mf, 0, tempColumn), 1, tempColumn)
                ELSE ColRI(ColRI(mf, 0, tempColumn), 1, tempColumn)
      [] r \in {F, FI} ->
            LET mf == rotateFace(m, FRONT, r = F)
                tempTop == [i \in Cols |-> mf[TOP][cRow - 1][i]]
            IN  IF r = F
                THEN EdgeF(EdgeF(mf, 0, tempTop), 1, tempTop)
                ELSE EdgeFI(EdgeFI(mf, 0, tempTop), 1, tempTop)
      [] r \in {B, BI} ->
            LET mf == rotateFace(m, BACK, r = B)
                tempTop == [i \in Cols |-> mf[TOP][0][i]]
            IN  IF r = B
                THEN EdgeB(EdgeB(mf, 0, tempTop), 1, tempTop)
                ELSE EdgeBI(EdgeBI(mf, 0, tempTop), 1, tempTop)
      [] OTHER -> m

(* ---------------- queries ---------------- *)
\* all cells of face f equal its cell [0][0]
FaceUniform(m, f) == \A i \in Rows, j \in Cols : m[f][i][j] = m[f][0][0]

\* isSolved with the loop running over all cFace faces
isSolved_allFaces(m) ==
    ~ \E f \in 0..(cFace - 1), i \in 0..(cCol - 1), j \in 0..(cRow - 1) :
          m[f][i][j] # m[f][0][0]

\* Cube::isSolved: false at the first cell that differs from its face's cell
\* [0][0], over the faces f < cFace / 2
isSolved(m) ==
    ~ \E f \in 0..((cFace \div 2) - 1), i \in 0..(cCol - 1), j \in 0..(cRow - 1) :
          m[f][i][j] # m[f][0][0]

\* cells that differ from cell [0][0] of their face
Misplaced(m) ==
    Cardinality({c \in Faces \X Rows \X Cols : m[c[1]][c[2]][c[3]] # m[c[1]][0][0]})

\* Cube::heuristic tuned to the 12 side stickers a move of a 3 x 3 cube carries
heuristic_perTwelve(m) == Misplaced(m) \div 12

\* Cube::heuristic
heuristic(m) == Misplaced(m) \div 8

\* getStateHash that reads column 0 for every cell of a row
getStateHash_column0(m) ==
    [k \in 1..(cFace * cRow * cCol) |->
        48 + m[(k - 1) \div (cRow * cCol)][((k - 1) \div cCol) % cRow][0]]

\* Cube::getStateHash: one character '0' + colour per cell, faces, rows, columns in order
getStateHash(m) ==
    [k \in 1..(cFace * cRow * cCol) |->
        48 + m[(k - 1) \div (cRow * cCol)][((k - 1) \div cCol) % cRow][(k - 1) % cCol]]

\* isRedundantMove with the comparison of the base faces turned round
isRedundantMove_smallerLast(lastMove, currentMove) ==
    IF lastMove = ROTATION_NONE THEN FALSE
    ELSE IF inverseRotation[lastMove] = currentMove THEN TRUE
    ELSE IF lastMove = currentMove THEN TRUE
    ELSE IF rotationAxis[lastMove] = rotationAxis[currentMove]
            /\ rotationBaseFace[lastMove] < rotationBaseFace[currentMove] THEN TRUE
    ELSE FALSE

\* Cube::isRedundantMove
isRedundantMove(lastMove, currentMove) ==
    IF lastMove = ROTATION_NONE THEN FALSE
    ELSE IF inverseRotation[lastMove] = currentMove THEN TRUE
    ELSE IF lastMove = currentMove THEN TRUE
    ELSE IF rotationAxis[lastMove] = rotationAxis[currentMove]
            /\ rotationBaseFace[lastMove] > rotationBaseFace[currentMove] THEN TRUE
    ELSE FALSE

\* applySolution: applyRotation for each move in order (sticker part)
RECURSIVE ApplyAll(_, _)
ApplyAll(m, seq) ==
    IF seq = <<>> THEN m
    ELSE ApplyAll(applyRotationInternal(m, Head(seq)), Tail(seq))

(* ---------------- state ---------------- *)
VARIABLES
    matrix,         \* _matrix
    rotations,      \* _rotations, the rotation log
    solutionFound,  \* _solutionFound
    solution,       \* _solution
    visitedStates,  \* _visitedStates
    depthLimit,     \* idaStar's local depthLimit
    path,           \* the path vector shared by the idaStarRecursive frames
    nextIdx,        \* position of the running frame's for loop in allRotations
    pc,             \* where the program is
    calls,          \* history: number of cube calls made by the caller
    lastOp,         \* history: the last cube call or search step
    snapshots,      \* history: <<stickers, log>> recorded at each log length
    startMatrix,    \* history: the stickers when idaStar was called
    startLog,       \* history: the log when idaStar was called
    initMatrix,     \* _initMatrix, the empty vector until saveInitState()
    clone,          \* the cube returned by copy(): <<stickers, log>>, <<>> before
    lastArgs,       \* history: the arguments of the last setColor(face, ...) call
    saved,          \* history: the stickers at the last saveInitState(), <<>> if none
    pruning,        \* TRUE: isRedundantMove as written; FALSE: the build in which
                    \* it is replaced by constant false
    prunedRun       \* history: <<found, depth bound>> at the end of the search
                    \* with isRedundantMove as written, <<>> before

cubeVars == <<matrix, rotations>>
searchVars == <<solutionFound, solution, visitedStates, depthLimit, path, nextIdx>>
startVars == <<startMatrix, startLog>>
runVars == <<pruning, prunedRun>>
extVars == <<initMatrix, clone, lastArgs, saved, pruning, prunedRun>>
vars == <<matrix, rotations, solutionFound, solution, visitedStates, depthLimit,
          path, nextIdx, pc, calls, lastOp, snapshots, startMatrix, startLog,
          initMatrix, clone, lastArgs, saved, pruning, prunedRun>>

\* the cap of idaStar's while loop
DepthCap == 20

\* number of cube calls a caller makes in SpecApi
MaxCalls == 3

\* number of setColor calls a caller makes in SpecCfg
MaxSets == 2

\* sequences handed to applySolution by a caller: the scrambles of the tests, one
\* with a rotation and its inverse at the end, and one of six rotations
TestSequences ==
    { <<U, UI>>, <<U, R>>, <<U, R, F>>, <<U, F, FI>>, <<U, L, FI, BI, UI, FI>> }

\* a freshly constructed Cube222
Init ==
    /\ matrix = DefaultCube
    /\ rotations = <<>>
    /\ solutionFound = FALSE
    /\ solution = <<>>
    /\ visitedStates = {}
    /\ depthLimit = 0
    /\ path = <<>>
    /\ nextIdx = 1
    /\ pc = "idle"
    /\ calls = 0
    /\ lastOp = "construct"
    /\ snapshots = << <<DefaultCube, <<>> >> >>
    /\ startMatrix = DefaultCube
    /\ startLog = <<>>
    /\ initMatrix = <<>>
    /\ clone = <<>>
    /\ lastArgs = <<>>
    /\ saved = <<>>
    /\ pruning = TRUE
    /\ prunedRun = <<>>

Front(seq) == SubSeq(seq, 1, Len(seq) - 1)
Last(seq) == seq[Len(seq)]

\* the log after an undoRotation that clears it
PopLog_clear(log) == <<>>

\* the log after undoRotation: pop_back unless empty
PopLog(log) == IF log # <<>> THEN Front(log) ELSE log

\* the snapshots after a call that logged the rotations of seq one by one
RECURSIVE PushAll(_, _, _, _)
PushAll(snaps, m, log, seq) ==
    IF seq = <<>> THEN snaps
    ELSE LET m1 == applyRotationInternal(m, Head(seq))
             log1 == Append(log, Head(seq))
         IN  PushAll(Append(snaps, <<m1, log1>>), m1, log1, Tail(seq))

\* the snapshots after undoRotation
PopSnap(snaps, m, log) ==
    IF Len(snaps) > 1 THEN Front(snaps) ELSE << <<m, log>> >>

(* ---------------- calls of the cube's public interface ---------------- *)
\* Cube222::applyRotation(r)
applyRotation(r) ==
    /\ pc = "idle"
    /\ matrix' = applyRotationInternal(matrix, r)
    /\ rotations' = Append(rotations, r)
    /\ snapshots' = Append(snapshots, <<matrix', rotations'>>)
    /\ calls' = calls + 1
    /\ lastOp' = "applyRotation"
    /\ UNCHANGED extVars
    /\ UNCHANGED <<searchVars, pc, startVars>>

\* Cube222::undoRotation(r)
undoRotation(r) ==
    /\ pc = "idle"
    /\ matrix' = applyRotationInternal(matrix, inverseRotation[r])
    /\ rotations' = PopLog(rotations)
    /\ snapshots' = PopSnap(snapshots, matrix', rotations')
    /\ calls' = calls + 1
    /\ lastOp' = "undoRotation"
    /\ UNCHANGED extVars
    /\ UNCHANGED <<searchVars, pc, startVars>>

\* Cube::applySolution(seq)
applySolution(seq) ==
    /\ pc = "idle"
    /\ matrix' = ApplyAll(matrix, seq)
    /\ rotations' = rotations \o seq
    /\ snapshots' = PushAll(snapshots, matrix, rotations, seq)
    /\ calls' = calls + 1
    /\ lastOp' = "applySolution"
    /\ UNCHANGED extVars
    /\ UNCHANGED <<searchVars, pc, startVars>>

\* the test of setColor(face, row, col, color) and getColor: row and column only
InBounds(row, col) == row >= 0 /\ row < cRow /\ col >= 0 /\ col < cCol

\* Cube::setColor(face, row, col, color): one cell, after the bounds check.
\* The face is not tested: with a row and column in range and a face the cube
\* does not have, _matrix[face] is read past the end of the vector, which is
\* undefined behaviour: the write lands outside the stickers, or the program
\* aborts or goes on in any other way (pc "undefined").  The caller records
\* lastArgs.
setColor(face, row, col, color) ==
    /\ pc = "idle"
    /\ IF InBounds(row, col)
       THEN IF face \in Faces
            THEN matrix' = SetCell(matrix, face, row, col, color) /\ pc' = pc
            ELSE matrix' = matrix /\ pc' \in {"idle", "undefined"}
       ELSE matrix' = matrix /\ pc' = pc
    /\ snapshots' = [snapshots EXCEPT ![Len(snapshots)] = <<matrix', rotations>>]
    /\ calls' = calls + 1
    /\ lastOp' = "setColor"
    /\ UNCHANGED <<initMatrix, clone, saved, runVars>>
    /\ UNCHANGED <<rotations, searchVars, startVars>>

\* Cube::getColor(face, row, col) where it is defined: the default colour when
\* the row or column is out of range, the sticker otherwise
getColor(m, face, row, col) ==
    IF InBounds(row, col) THEN m[face][row][col] ELSE WHITE

\* a call of Cube::getColor; lastArgs records the arguments and the result.
\* With a row and column in range and a face the cube does not have the read is
\* past the end of _matrix: undefined behaviour, any colour or any other outcome.
getColorCall(face, row, col) ==
    /\ pc = "idle"
    /\ IF face \in Faces \/ ~InBounds(row, col)
       THEN lastArgs' = <<face, row, col, getColor(matrix, face, row, col)>> /\ pc' = pc
       ELSE /\ \E c \in Color : lastArgs' = <<face, row, col, c>>
            /\ pc' \in {"idle", "undefined"}
    /\ calls' = calls + 1
    /\ lastOp' = "getColor"
    /\ UNCHANGED <<cubeVars, searchVars, snapshots, startVars, initMatrix, clone, saved, runVars>>

\* Cube::setColor(face, color)
setColorFaceCall(face, color) ==
    /\ pc = "idle"
    /\ matrix' = setColorFace(matrix, face, color)
    /\ snapshots' = [snapshots EXCEPT ![Len(snapshots)] = <<matrix', rotations>>]
    /\ calls' = calls + 1
    /\ lastOp' = "setColorFace"
    /\ lastArgs' = <<face, color>>
    /\ UNCHANGED <<rotations, searchVars, pc, startVars, initMatrix, clone, saved, runVars>>

\* Cube::setColor(face, colors)
setColorListCall(face, colors) ==
    /\ pc = "idle"
    /\ matrix' = setColorList(matrix, face, colors)
    /\ snapshots' = [snapshots EXCEPT ![Len(snapshots)] = <<matrix', rotations>>]
    /\ calls' = calls + 1
    /\ lastOp' = "setColorList"
    /\ lastArgs' = <<face, colors>>
    /\ UNCHANGED <<rotations, searchVars, pc, startVars, initMatrix, clone, saved, runVars>>

\* a sticker array without faces: _initMatrix before saveInitState()
Emptied(m) == DOMAIN m = {}

\* Cube::saveInitState
saveInitState ==
    /\ pc = "idle"
    /\ initMatrix' = matrix
    /\ saved' = matrix
    /\ calls' = calls + 1
    /\ lastOp' = "saveInitState"
    /\ UNCHANGED <<cubeVars, searchVars, pc, snapshots, startVars, clone, lastArgs, runVars>>

\* Cube::reset that leaves the log as it is
reset_keepLog ==
    /\ pc = "idle"
    /\ matrix' = initMatrix
    /\ rotations' = rotations
    /\ snapshots' = << <<matrix', rotations'>> >>
    /\ calls' = calls + 1
    /\ lastOp' = "reset"
    /\ UNCHANGED <<searchVars, pc, startVars, extVars>>

\* Cube::reset
reset ==
    /\ pc = "idle"
    /\ matrix' = initMatrix
    /\ rotations' = <<>>
    /\ snapshots' = << <<matrix', rotations'>> >>
    /\ calls' = calls + 1
    /\ lastOp' = "reset"
    /\ UNCHANGED <<searchVars, pc, startVars, extVars>>

\* a rotation of a cube whose sticker array has no faces indexes an empty vector:
\* undefined behaviour, any outcome; the model follows the program no further
rotateEmptied ==
    /\ pc = "idle"
    /\ Emptied(matrix)
    /\ pc' = "undefined"
    /\ calls' = calls + 1
    /\ lastOp' = "applyRotation"
    /\ UNCHANGED <<cubeVars, searchVars, snapshots, startVars, extVars>>

\* Cube222::copy that returns what the base Cube::copy returns: a new cube
copy_newCube ==
    /\ pc = "idle"
    /\ clone' = <<DefaultCube, <<>> >>
    /\ calls' = calls + 1
    /\ lastOp' = "copy"
    /\ UNCHANGED <<cubeVars, searchVars, pc, snapshots, startVars,
                   initMatrix, lastArgs, saved, runVars>>

\* Cube222::copy: the copy constructor copies the stickers and the log by value
copy ==
    /\ pc = "idle"
    /\ clone' = <<matrix, rotations>>
    /\ calls' = calls + 1
    /\ lastOp' = "copy"
    /\ UNCHANGED <<cubeVars, searchVars, pc, snapshots, startVars,
                   initMatrix, lastArgs, saved, runVars>>

\* applyRotation(r) called on the cube returned by copy()
cloneApplyRotation(r) ==
    /\ pc = "idle"
    /\ clone # <<>>
    /\ clone' = <<applyRotationInternal(clone[1], r), Append(clone[2], r)>>
    /\ calls' = calls + 1
    /\ lastOp' = "clone.applyRotation"
    /\ UNCHANGED <<cubeVars, searchVars, pc, snapshots, startVars,
                   initMatrix, lastArgs, saved, runVars>>

\* setColor(face, row, col, color) called on the cube returned by copy()
cloneSetColor(face, row, col, color) ==
    /\ pc = "idle"
    /\ clone # <<>>
    /\ clone' = <<(IF row >= 0 /\ row < cRow /\ col >= 0 /\ col < cCol
                   THEN SetCell(clone[1], face, row, col, color)
                   ELSE clone[1]),
                  clone[2]>>
    /\ calls' = calls + 1
    /\ lastOp' = "clone.setColor"
    /\ UNCHANGED <<cubeVars, searchVars, pc, snapshots, startVars,
                   initMatrix, lastArgs, saved, runVars>>

(* ---------------- the search ---------------- *)
\* idaStar without the early return on a solved cube
idaStar_noEarlyReturn ==
    /\ pc = "idle"
    /\ lastOp' = "idaStar"
    /\ UNCHANGED extVars
    /\ startMatrix' = matrix
    /\ startLog' = rotations
    /\ solutionFound' = FALSE
    /\ solution' = <<>>
    /\ depthLimit' = (IF heuristic(matrix) = 0 THEN 1 ELSE heuristic(matrix))
    /\ pc' = "while"
    /\ UNCHANGED <<cubeVars, visitedStates, path, nextIdx, calls, snapshots>>

\* Cube::idaStar, up to the while loop
idaStar ==
    /\ pc = "idle"
    /\ lastOp' = "idaStar"
    /\ UNCHANGED extVars
    /\ startMatrix' = matrix
    /\ startLog' = rotations
    /\ IF isSolved(matrix)
       THEN /\ pc' = "done"
            /\ UNCHANGED <<cubeVars, searchVars, calls, snapshots>>
       ELSE /\ solutionFound' = FALSE
            /\ solution' = <<>>
            /\ depthLimit' = (IF heuristic(matrix) = 0 THEN 1 ELSE heuristic(matrix))
            /\ pc' = "while"
            /\ UNCHANGED <<cubeVars, visitedStates, path, nextIdx, calls, snapshots>>

\* the head of the while loop: start the pass of depthLimit, or give up
idaStarLoop ==
    /\ pc = "while"
    /\ lastOp' = "idaStarLoop"
    /\ UNCHANGED extVars
    /\ IF ~solutionFound /\ depthLimit <= DepthCap
       THEN /\ depthLimit <= MaxDepthLimit
            /\ visitedStates' = {}
            /\ path' = <<>>
            /\ nextIdx' = 1
            /\ pc' = "enter"
            /\ UNCHANGED <<cubeVars, solutionFound, solution, depthLimit,
                           calls, snapshots, startVars>>
       ELSE /\ pc' = "done"
            /\ UNCHANGED <<cubeVars, searchVars, calls, snapshots, startVars>>

\* arguments of the running idaStarRecursive frame
currentDepth == Len(path)
lastMove == IF path = <<>> THEN ROTATION_NONE ELSE Last(path)

\* idaStarRecursive that looks up and records the fingerprint before the
\* heuristic test
idaStarRecursive_cacheFirst ==
    /\ pc = "enter"
    /\ lastOp' = "idaStarRecursive"
    /\ UNCHANGED extVars
    /\ UNCHANGED <<cubeVars, depthLimit, path, calls, snapshots, startVars>>
    /\ IF isSolved(matrix)
       THEN /\ solutionFound' = TRUE
            /\ solution' = path
            /\ pc' = "found"
            /\ UNCHANGED <<visitedStates, nextIdx>>
       ELSE IF getStateHash(matrix) \in visitedStates
       THEN /\ pc' = "fail"
            /\ UNCHANGED <<solutionFound, solution, visitedStates, nextIdx>>
       ELSE IF currentDepth + heuristic(matrix) > depthLimit
       THEN /\ visitedStates' = visitedStates \cup {getStateHash(matrix)}
            /\ pc' = "fail"
            /\ UNCHANGED <<solutionFound, solution, nextIdx>>
       ELSE /\ visitedStates' = visitedStates \cup {getStateHash(matrix)}
            /\ nextIdx' = 1
            /\ pc' = "loop"
            /\ UNCHANGED <<solutionFound, solution>>

\* idaStarRecursive from its entry to the for loop
idaStarRecursive ==
    /\ pc = "enter"
    /\ lastOp' = "idaStarRecursive"
    /\ UNCHANGED extVars
    /\ UNCHANGED <<cubeVars, depthLimit, path, calls, snapshots, startVars>>
    /\ IF isSolved(matrix)
       THEN /\ solutionFound' = TRUE
            /\ solution' = path
            /\ pc' = "found"
            /\ UNCHANGED <<visitedStates, nextIdx>>
       ELSE IF currentDepth + heuristic(matrix) > depthLimit
       THEN /\ pc' = "fail"
            /\ UNCHANGED <<solutionFound, solution, visitedStates, nextIdx>>
       ELSE IF getStateHash(matrix) \in visitedStates
       THEN /\ pc' = "fail"
            /\ UNCHANGED <<solutionFound, solution, visitedStates, nextIdx>>
       ELSE /\ visitedStates' = visitedStates \cup {getStateHash(matrix)}
            /\ nextIdx' = 1
            /\ pc' = "loop"
            /\ UNCHANGED <<solutionFound, solution>>

\* positions of the for loop, from nextIdx on, that are not pruned
Candidates ==
    {k \in nextIdx..Len(allRotations) :
        ~(pruning /\ isRedundantMove(lastMove, allRotations[k]))}

\* the least element of a set of numbers
Least(S) == CHOOSE k \in S : \A k2 \in S : k <= k2

\* the for loop that turns the cube with applyRotationInternal, which keeps no log
tryRotation_silent ==
    /\ pc = "loop"
    /\ Candidates # {}
    /\ LET r == allRotations[Least(Candidates)]
       IN  /\ matrix' = applyRotationInternal(matrix, r)
           /\ rotations' = rotations
           /\ path' = Append(path, r)
    /\ snapshots' = Append(snapshots, <<matrix', rotations'>>)
    /\ nextIdx' = 1
    /\ pc' = "enter"
    /\ lastOp' = "tryRotation"
    /\ UNCHANGED extVars
    /\ UNCHANGED <<solutionFound, solution, visitedStates, depthLimit, calls, startVars>>

\* the for loop: skip the pruned rotations, apply the next one and recurse
tryRotation ==
    /\ pc = "loop"
    /\ Candidates # {}
    /\ LET r == allRotations[Least(Candidates)]
       IN  /\ matrix' = applyRotationInternal(matrix, r)
           /\ rotations' = Append(rotations, r)
           /\ path' = Append(path, r)
    /\ snapshots' = Append(snapshots, <<matrix', rotations'>>)
    /\ nextIdx' = 1
    /\ pc' = "enter"
    /\ lastOp' = "tryRotation"
    /\ UNCHANGED extVars
    /\ UNCHANGED <<solutionFound, solution, visitedStates, depthLimit, calls, startVars>>

\* the for loop has run out: return false
loopExhausted ==
    /\ pc = "loop"
    /\ Candidates = {}
    /\ pc' = "fail"
    /\ lastOp' = "loopExhausted"
    /\ UNCHANGED extVars
    /\ UNCHANGED <<cubeVars, searchVars, calls, snapshots, startVars>>

\* backtrack that leaves the for loop on the rotation it has just undone
backtrack_retry ==
    /\ pc = "fail"
    /\ path # <<>>
    /\ LET r == Last(path)
       IN  /\ matrix' = applyRotationInternal(matrix, inverseRotation[r])
           /\ nextIdx' = r + 1
    /\ rotations' = PopLog(rotations)
    /\ snapshots' = PopSnap(snapshots, matrix', rotations')
    /\ path' = Front(path)
    /\ pc' = "loop"
    /\ lastOp' = "backtrack"
    /\ UNCHANGED extVars
    /\ UNCHANGED <<solutionFound, solution, visitedStates, depthLimit, calls, startVars>>

\* the caller frame after a false return: undoRotation(r), path.pop_back()
backtrack ==
    /\ pc = "fail"
    /\ path # <<>>
    /\ LET r == Last(path)
       IN  /\ matrix' = applyRotationInternal(matrix, inverseRotation[r])
           /\ nextIdx' = r + 2
    /\ rotations' = PopLog(rotations)
    /\ snapshots' = PopSnap(snapshots, matrix', rotations')
    /\ path' = Front(path)
    /\ pc' = "loop"
    /\ lastOp' = "backtrack"
    /\ UNCHANGED extVars
    /\ UNCHANGED <<solutionFound, solution, visitedStates, depthLimit, calls, startVars>>

\* idaStar that steps the depth bound by two after a failed pass
passFailed_stepTwo ==
    /\ pc = "fail"
    /\ path = <<>>
    /\ depthLimit' = depthLimit + 2
    /\ pc' = "while"
    /\ lastOp' = "passFailed"
    /\ UNCHANGED extVars
    /\ UNCHANGED <<cubeVars, solutionFound, solution, visitedStates, path, nextIdx,
                   calls, snapshots, startVars>>

\* idaStar after a pass that returned false: depthLimit++
passFailed ==
    /\ pc = "fail"
    /\ path = <<>>
    /\ depthLimit' = depthLimit + 1
    /\ pc' = "while"
    /\ lastOp' = "passFailed"
    /\ UNCHANGED extVars
    /\ UNCHANGED <<cubeVars, solutionFound, solution, visitedStates, path, nextIdx,
                   calls, snapshots, startVars>>

\* idaStar after a pass that returned true: applySolution(_solution), return
solved ==
    /\ pc = "found"
    /\ matrix' = ApplyAll(matrix, solution)
    /\ rotations' = rotations \o solution
    /\ snapshots' = PushAll(snapshots, matrix, rotations, solution)
    /\ pc' = "done"
    /\ lastOp' = "solved"
    /\ UNCHANGED extVars
    /\ UNCHANGED <<searchVars, calls, startVars>>

(* ---------------- specifications ---------------- *)
\* a caller scrambles the fresh cube and then calls dfs(), as main and the tests do
Scramble(r) == Len(rotations) < MaxScramble /\ applyRotation(r)
ScrambleSeq(seq) == calls = 0 /\ applySolution(seq)

Next ==
    \/ \E r \in Rotation : Scramble(r)
    \/ \E seq \in TestSequences : ScrambleSeq(seq)
    \/ idaStar
    \/ idaStarLoop
    \/ idaStarRecursive
    \/ tryRotation
    \/ loopExhausted
    \/ backtrack
    \/ passFailed
    \/ solved

Spec == Init /\ [][Next]_vars

\* the steps of a running search: once dfs() is called the thread runs on
SearchStep ==
    \/ idaStarLoop
    \/ idaStarRecursive
    \/ tryRotation
    \/ loopExhausted
    \/ backtrack
    \/ passFailed
    \/ solved

\* a caller scrambles the fresh cube by one sequence and calls dfs()
NextLive ==
    \/ \E seq \in TestSequences \cup {<<r>> : r \in Rotation} : ScrambleSeq(seq)
    \/ idaStar
    \/ SearchStep

SpecLive == Init /\ [][NextLive]_vars /\ WF_vars(SearchStep)

\* a caller applies and undoes rotations; undoRotation gets the rotation logged last
ApiApply(r) == calls < MaxCalls /\ applyRotation(r)
ApiUndo(r) ==
    /\ calls < MaxCalls
    /\ rotations # <<>> => r = Last(rotations)
    /\ undoRotation(r)

NextApi ==
    \/ \E r \in Rotation : ApiApply(r)
    \/ \E r \in Rotation : ApiUndo(r)

SpecApi == Init /\ [][NextApi]_vars

\* number of setColor(face, ...) calls a caller makes in SpecFace
MaxFaceSets == 2

\* colour lists a caller hands to setColor(face, colors): the list of the test
\* SetColorVector, one with UNDEFINED, and one shorter than a face
ColorLists ==
    { <<RED, BLUE, GREEN, YELLOW>>, <<UNDEFINED, WHITE, ORANGE, RED>>, <<GREEN, RED>> }

\* a caller colours whole faces, as main does from the command line
FaceSetColor(face, color) == calls < MaxFaceSets /\ setColorFaceCall(face, color)
FaceSetList(face, colors) == calls < MaxFaceSets /\ setColorListCall(face, colors)

NextFace ==
    \/ \E face \in Faces, color \in Color : FaceSetColor(face, color)
    \/ \E face \in Faces, colors \in ColorLists : FaceSetList(face, colors)

SpecFace == Init /\ [][NextFace]_vars

\* number of cube calls a caller makes in SpecReset
MaxResetCalls == 4

\* a caller rotates the cube, saves its state and resets it
ResetApply(r) == calls < MaxResetCalls /\ ~Emptied(matrix) /\ applyRotation(r)
ResetUndo(r) ==
    /\ calls < MaxResetCalls
    /\ ~Emptied(matrix)
    /\ rotations # <<>> => r = Last(rotations)
    /\ undoRotation(r)
ResetSave == calls < MaxResetCalls /\ saveInitState
ResetReset == calls < MaxResetCalls /\ reset
ResetRotateEmptied == calls < MaxResetCalls /\ rotateEmptied

NextReset ==
    \/ \E r \in Rotation : ResetApply(r)
    \/ \E r \in Rotation : ResetUndo(r)
    \/ ResetSave
    \/ ResetReset
    \/ ResetRotateEmptied

SpecReset == Init /\ [][NextReset]_vars

\* number of cube calls a caller makes in SpecCopy
MaxCopyCalls == 3

\* colours a caller of SpecCopy writes into cell FRONT[0][0]
CopyColors == {RED, UNDEFINED}

\* a caller rotates and colours a cube and the cube it got from copy()
CopyApply(r) == calls < MaxCopyCalls /\ applyRotation(r)
CopySetColor(color) ==
    calls < MaxCopyCalls /\ setColor(FRONT, 0, 0, color) /\ UNCHANGED lastArgs
CopyCopy == calls < MaxCopyCalls /\ copy
CopyCloneApply(r) == calls < MaxCopyCalls /\ cloneApplyRotation(r)
CopyCloneSetColor(color) == calls < MaxCopyCalls /\ cloneSetColor(FRONT, 0, 0, color)

NextCopy ==
    \/ \E r \in Rotation : CopyApply(r)
    \/ \E color \in CopyColors : CopySetColor(color)
    \/ CopyCopy
    \/ \E r \in Rotation : CopyCloneApply(r)
    \/ \E color \in CopyColors : CopyCloneSetColor(color)

SpecCopy == Init /\ [][NextCopy]_vars

\* scrambles on which the search is run twice, with and without the pruning
PruneScrambles == { <<U>>, <<UI>>, <<U, R>>, <<U, F, FI, U>> }

\* the first search is followed as far as the bounds go
SearchOver == pc = "done" \/ (pc = "while" /\ depthLimit > MaxDepthLimit)

\* a second cube with the same scramble, searched by the build in which
\* isRedundantMove is constant false, after the search as written, which did
\* not return at once, is over
searchUnpruned ==
    /\ SearchOver
    /\ lastOp # "idaStar"
    /\ pruning
    /\ pruning' = FALSE
    /\ prunedRun' = <<solutionFound, depthLimit>>
    /\ matrix' = startMatrix
    /\ rotations' = startLog
    /\ snapshots' = SubSeq(snapshots, 1, Len(startLog) + 1)
    /\ pc' = "idle"
    /\ lastOp' = "construct"
    /\ UNCHANGED <<searchVars, calls, startVars, initMatrix, clone, lastArgs, saved>>

NextPrune ==
    \/ \E seq \in PruneScrambles : ScrambleSeq(seq)
    \/ idaStar
    \/ SearchStep
    \/ searchUnpruned

SpecPrune == Init /\ [][NextPrune]_vars

\* face lists of a command line: a face of one colour, and the same face with
\* one cell that main could not read (UNDEFINED)
MainLists == { <<RED, RED, RED, RED>>, <<RED, RED, UNDEFINED, RED>> }

\* main colours the faces named on the command line, here in the order of the
\* enumeration and each at most once, and then calls dfs()
MainSetColor(face, colors) ==
    /\ lastOp = "construct" \/ (lastOp = "setColorList" /\ face > lastArgs[1])
    /\ setColorListCall(face, colors)

NextMain ==
    \/ \E face \in Faces, colors \in MainLists : MainSetColor(face, colors)
    \/ idaStar
    \/ SearchStep

SpecMain == Init /\ [][NextMain]_vars

\* number of calls a caller of SpecSeq makes before the known sequence
MaxSeqCalls == 2

\* the sequence of testKnownSequences
KnownSequence == <<R, U, RI, UI>>

\* seq repeated n times
RECURSIVE Repeated(_, _)
Repeated(seq, n) == IF n = 0 THEN <<>> ELSE seq \o Repeated(seq, n - 1)

\* the rotations of the loop of testKnownSequences: the sequence, 6 times
KnownSequenceLoop == Repeated(KnownSequence, cFace)

\* a caller marks cells and rotates the cube, then runs the loop of
\* testKnownSequences on it, one step per iteration: four applyRotation calls,
\* which is what applySolution does with the sequence
SeqSetColor(face, row, col) ==
    /\ calls < MaxSeqCalls
    /\ lastOp # "applySolution"
    /\ setColor(face, row, col, UNDEFINED)
    /\ UNCHANGED lastArgs
SeqApply(r) == calls < MaxSeqCalls /\ lastOp # "applySolution" /\ applyRotation(r)
\* the number of times the log ends with the known sequence
RECURSIVE LoopRuns(_)
LoopRuns(log) ==
    IF Len(log) >= Len(KnownSequence)
       /\ SubSeq(log, Len(log) - Len(KnownSequence) + 1, Len(log)) = KnownSequence
    THEN 1 + LoopRuns(SubSeq(log, 1, Len(log) - Len(KnownSequence)))
    ELSE 0
SeqKnownSequence ==
    /\ IF lastOp = "applySolution" THEN LoopRuns(rotations) < cFace ELSE calls <= MaxSeqCalls
    /\ applySolution(KnownSequence)

NextSeq ==
    \/ \E face \in Faces, row \in Rows, col \in Cols : SeqSetColor(face, row, col)
    \/ \E r \in Rotation : SeqApply(r)
    \/ SeqKnownSequence

SpecSeq == Init /\ [][NextSeq]_vars

\* the face lists of the README example: -ft YYYY -ff ROOO -fr BGBB -fbk ORRR
\* -fb WWWW -fl GBGG
ReadmeColors ==
    [face \in Faces |->
        CASE face = TOP -> <<YELLOW, YELLOW, YELLOW, YELLOW>>
          [] face = FRONT -> <<RED, ORANGE, ORANGE, ORANGE>>
          [] face = RIGHT -> <<BLUE, GREEN, BLUE, BLUE>>
          [] face = BACK -> <<ORANGE, RED, RED, RED>>
          [] face = BOTTOM -> <<WHITE, WHITE, WHITE, WHITE>>
          [] face = LEFT -> <<GREEN, BLUE, GREEN, GREEN>>]

\* the solution the README gives for it
ReadmeSolution == <<F, UI, B, LI, B, R, F>>

\* the test colours the faces one setColor(face, list) call each, then applies
\* the rotations of the solution one by one; here the faces come in any order
\* and the rotations may start on a cube that is not coloured completely
ReadmeSetColor(face) ==
    /\ calls < cFace
    /\ rotations = <<>>
    /\ setColorListCall(face, ReadmeColors[face])
ReadmeRotate ==
    /\ Len(rotations) < Len(ReadmeSolution)
    /\ applyRotation(ReadmeSolution[Len(rotations) + 1])

NextReadme ==
    \/ \E face \in Faces : ReadmeSetColor(face)
    \/ ReadmeRotate

SpecReadme == Init /\ [][NextReadme]_vars

\* number of setColor and getColor calls a caller makes in SpecIndex
MaxIndexCalls == 2

\* the face arguments of a caller: the six faces and the enumerator NONE
FaceArgs == Faces \cup {NONE}

\* the row and column arguments of a caller: in range, one below, one above
IndexArgs == (0 - 1) .. cRow

\* a caller writes and reads single cells with any face, row and column
IndexSetColor(face, row, col, color) ==
    /\ calls < MaxIndexCalls
    /\ setColor(face, row, col, color)
    /\ lastArgs' = <<face, row, col, color>>
IndexGetColor(face, row, col) == calls < MaxIndexCalls /\ getColorCall(face, row, col)

NextIndex ==
    \E face \in FaceArgs, row \in IndexArgs, col \in IndexArgs :
        \/ \E color \in CopyColors : IndexSetColor(face, row, col, color)
        \/ IndexGetColor(face, row, col)

SpecIndex == Init /\ [][NextIndex]_vars

\* a caller colours single cells of the fresh cube
CfgSetColor(face, row, col, color) ==
    calls < MaxSets /\ setColor(face, row, col, color) /\ UNCHANGED lastArgs

NextCfg ==
    \E face \in Faces, row \in Rows, col \in Cols, color \in Color :
        CfgSetColor(face, row, col, color)

SpecCfg == Init /\ [][NextCfg]_vars

(* ======================= the claims ======================= *)
\* number of stickers of each colour
ColourCount(m) ==
    [c \in Color |->
        Cardinality({x \in Faces \X Rows \X Cols : m[x[1]][x[2]][x[3]] = c})]

\* cubes reached from the cubes of S by exactly n rotations
RECURSIVE ReachSet(_, _)
ReachSet(S, n) ==
    IF n = 0 THEN S
    ELSE ReachSet({applyRotationInternal(m, r) : m \in S, r \in Rotation}, n - 1)

\* longest rotation sequence tried when computing the least solution length
MinSearch == 3

\* least number of rotations that solve m, MinSearch + 1 if more than MinSearch
MinMoves(m) ==
    LET Ok == {n \in 0..MinSearch : \E x \in ReachSet({m}, n) : isSolved(x)}
    IN  IF Ok = {} THEN MinSearch + 1 ELSE Least(Ok)

\* C1: when a search that found a solution returns, the live cube is solved.
SearchEndsSolved == (pc = "done" /\ solutionFound) => isSolved(matrix)

\* C2: the recorded solution, replayed on the stickers the search started from,
\* gives a solved cube.
ReplaySolves == solutionFound => isSolved(ApplyAll(startMatrix, solution))

\* C3: in every state, each rotation followed by its inverse reproduces all 24 cells.
InverseCancellation ==
    \A r \in Rotation :
        applyRotationInternal(applyRotationInternal(matrix, r), inverseRotation[r]) = matrix

\* C4: in every state, each rotation applied four times reproduces all 24 cells.
OrderFourCycle ==
    \A r \in Rotation : ApplyAll(matrix, <<r, r, r, r>>) = matrix

ApplyUndoRoundTrip == <<matrix, rotations>> = Last(snapshots)

\* C7 as stated: isSolved() is true exactly when all six faces are uniform.
SolvedIffSixFacesUniform ==
    isSolved(matrix) <=> \A f \in Faces : FaceUniform(matrix, f)

\* C7 as amended: isSolved() is true exactly when TOP, FRONT and RIGHT are uniform.
SolvedIffFirstThreeUniform ==
    isSolved(matrix) <=>
        (FaceUniform(matrix, TOP) /\ FaceUniform(matrix, FRONT) /\ FaceUniform(matrix, RIGHT))

\* C7 witness: a cell of BOTTOM was recoloured and isSolved() is still true.
SolvedWithMixedBottomWitness ==
    lastOp = "setColor" /\ isSolved(matrix) /\ ~FaceUniform(matrix, BOTTOM)

\* C8: a recorded solution has the least length that solves the starting cube,
\* and no pass fails at a bound that a solution fits in.
MinimalSolution ==
    /\ solutionFound => Len(solution) = MinMoves(startMatrix)
    /\ lastOp = "passFailed" => MinMoves(startMatrix) >= depthLimit

\* C9: for a cube one rotation r away from the constructed cube the cube is
\* unsolved, the first pass succeeds, and the solution has length 1 (<<UI>> for r = U).
SingleScramble ==
    /\ pc # "idle"
    /\ Len(startLog) = 1
    /\ startMatrix = applyRotationInternal(DefaultCube, startLog[1])

OneMoveSolution ==
    SingleScramble =>
        /\ ~isSolved(startMatrix)
        /\ lastOp # "passFailed"
        /\ solutionFound => Len(solution) = 1
        /\ (solutionFound /\ startLog = <<U>>) => solution = <<UI>>

\* C10: idaStar() on a solved cube returns at once: no pass is started, the
\* stickers and the log are those of the call, and no move list is recorded.
AlreadySolvedReturns ==
    (pc # "idle" /\ isSolved(startMatrix)) =>
        /\ pc = "done"
        /\ lastOp = "idaStar"
        /\ matrix = startMatrix
        /\ rotations = startLog
        /\ solution = <<>>
        /\ ~solutionFound
        /\ visitedStates = {}

\* C10 witness: the call returned on a solved cube whose log is not empty.
AlreadySolvedWitness ==
    pc = "done" /\ lastOp = "idaStar" /\ rotations # <<>> /\ isSolved(matrix)

\* C11: when a search that found a solution returns, the rotation log holds what it
\* held at the call followed by the winning path once, and nothing else.
LogIsWinningPath ==
    (pc = "done" /\ solutionFound) => rotations = startLog \o solution

\* C12: heuristic() is 0 on every cube that isSolved() accepts, and on every cube
\* reached by rotations from the constructed one it is at most the least number of
\* rotations that lead to a cube that isSolved() accepts: no cube reached by fewer
\* than heuristic() rotations is accepted.
HeuristicAdmissible ==
    /\ isSolved(matrix) => heuristic(matrix) = 0
    /\ \A n \in 0..(heuristic(matrix) - 1) :
          \A x \in ReachSet({matrix}, n) : ~isSolved(x)

\* C13: for a scramble of n <= 3 rotations of the constructed cube that leaves it
\* unsolved, no pass with a bound of n or more fails, and a solution is found in a
\* pass whose bound is at most n.
PruningKeepsSolution ==
    (pc \notin {"idle"} /\ Len(startLog) <= 3 /\ ~isSolved(startMatrix)) =>
        /\ lastOp = "passFailed" => depthLimit <= Len(startLog)
        /\ solutionFound => depthLimit <= Len(startLog)

FingerprintSound ==
    /\ [](getStateHash(matrix) = getStateHash(DefaultCube) <=> matrix = DefaultCube)
    /\ [][getStateHash(matrix') = getStateHash(matrix) <=> matrix' = matrix]_vars

\* C15 witness: a coloured cube that differs from the constructed one in two cells,
\* one of them UNDEFINED.
FingerprintSoundWitness ==
    /\ lastOp = "setColor"
    /\ Cardinality({x \in Faces \X Rows \X Cols :
                        matrix[x[1]][x[2]][x[3]] # DefaultCube[x[1]][x[2]][x[3]]}) = 2
    /\ \E x \in Faces \X Rows \X Cols : matrix[x[1]][x[2]][x[3]] = UNDEFINED

\* the rule of C16 for a move current after a move last
RedundantByRule(last, current) ==
    /\ last # ROTATION_NONE
    /\ \/ current = inverseRotation[last]
       \/ current = last
       \/ /\ rotationAxis[last] = rotationAxis[current]
          /\ rotationBaseFace[current] < rotationBaseFace[last]

\* the rule as a table over all pairs of moves
RedundantMoveTable ==
    /\ \A last \in Rotation \cup {ROTATION_NONE}, current \in Rotation :
          isRedundantMove(last, current) <=> RedundantByRule(last, current)
    /\ \A current \in Rotation : ~isRedundantMove(ROTATION_NONE, current)
    /\ \A last \in Rotation :
          LET others == {c \in Rotation : rotationAxis[c] # rotationAxis[last]}
          IN  Cardinality(others) = 8 /\ \A c \in others : ~isRedundantMove(last, c)

\* C16: isRedundantMove(last, current) is true exactly by the rule; the first move
\* is never redundant; after any move none of the 8 rotations on the two other axes
\* is redundant; so the search applies no rotation that the rule excludes.
RedundantMoveRule ==
    /\ RedundantMoveTable
    /\ \A i \in 1..(Len(path) - 1) : ~RedundantByRule(path[i], path[i + 1])
    /\ pc = "loop" =>
          Candidates = {k \in nextIdx..Len(allRotations) :
                           ~RedundantByRule(lastMove, allRotations[k])}

\* C16 witness: the search has applied a rotation after another one.
RedundantMoveRuleWitness == lastOp = "tryRotation" /\ Len(path) = 2

\* C17: right after copy() the clone has the stickers and the log of the original;
\* a rotation or setColor call on the original leaves the clone's stickers and log
\* unchanged, and a call on the clone leaves the original's unchanged.
CopyIndependent ==
    /\ [](lastOp = "copy" => clone = <<matrix, rotations>>)
    /\ [][/\ lastOp' \in {"applyRotation", "setColor"} => clone' = clone
          /\ lastOp' \in {"clone.applyRotation", "clone.setColor"} =>
                cubeVars' = cubeVars]_vars

\* C17 witness: the two cubes differ after calls on each of them since the copy.
CopyIndependentWitness ==
    /\ clone # <<>>
    /\ lastOp = "clone.applyRotation"
    /\ rotations # <<>>
    /\ clone[1] # matrix
    /\ Len(clone[2]) = 1

\* C18: after saveInitState() and then any applyRotation and undoRotation calls,
\* reset() leaves every sticker at its value at the saveInitState() call and the
\* log empty.
SnapshotRoundTrip ==
    (lastOp = "reset" /\ ~Emptied(saved)) => (matrix = saved /\ rotations = <<>>)

\* C18 witness: reset() after rotations that followed saveInitState() on a
\* scrambled cube.
SnapshotRoundTripWitness ==
    /\ lastOp = "reset"
    /\ ~Emptied(saved)
    /\ saved # DefaultCube
    /\ calls >= 4

\* C19: on a cube on which saveInitState() was never called, reset() after any
\* rotations leaves the solved cube of construction: six faces of 4 cells and
\* isSolved() true.
ResetWithoutSave ==
    (lastOp = "reset" /\ Emptied(initMatrix)) =>
        (matrix \in Matrices /\ isSolved(matrix) /\ matrix = DefaultCube)

\* C20: setColor(face, colour) leaves all 4 cells of the face at the colour;
\* setColor(face, list) with a list of 4 leaves cell (row, col) of the face at
\* list[2 * row + col]; both leave the cells of the other faces as they were.
SetColorOfFace ==
    [][/\ lastOp' = "setColorFace" =>
            /\ \A i \in Rows, j \in Cols : matrix'[lastArgs'[1]][i][j] = lastArgs'[2]
            /\ \A g \in Faces \ {lastArgs'[1]} : matrix'[g] = matrix[g]
       /\ (lastOp' = "setColorList" /\ Len(lastArgs'[2]) = 4) =>
            /\ \A i \in Rows, j \in Cols :
                  matrix'[lastArgs'[1]][i][j] = lastArgs'[2][2 * i + j + 1]
            /\ \A g \in Faces \ {lastArgs'[1]} : matrix'[g] = matrix[g]]_vars

\* C20 witness: a list of 4 different colours was set on a face after another
\* face had been coloured.
SetColorOfFaceWitness ==
    /\ lastOp = "setColorList"
    /\ calls = 2
    /\ Len(lastArgs[2]) = 4
    /\ matrix[lastArgs[1]][0][1] # matrix[lastArgs[1]][1][0]
    /\ \E g \in Faces \ {lastArgs[1]} : matrix[g] # DefaultCube[g]

\* C21: a setColor or getColor call whose face, row or column is out of range
\* is rejected without aborting: setColor leaves every sticker as it was,
\* getColor returns the default colour and leaves the cube as it was.
OutOfRangeRejected ==
    [][(lastOp' \in {"setColor", "getColor"} /\ calls' = calls + 1
        /\ ~(lastArgs'[1] \in Faces /\ InBounds(lastArgs'[2], lastArgs'[3]))) =>
            /\ pc' = "idle"
            /\ matrix' = matrix /\ rotations' = rotations
            /\ lastOp' = "getColor" => lastArgs'[4] = WHITE]_vars

\* the cube of the README example, face by face
ReadmeCube == [face \in Faces |-> [i \in Rows |-> [j \in Cols |->
                  ReadmeColors[face][i * cCol + j + 1]]]]

\* C22: the cube coloured as in the README example is not solved, and after
\* the rotations F, UI, B, LI, B, R, F applied to it isSolved() is true.
ReadmeExampleSolved ==
    /\ (rotations = <<>> /\ matrix = ReadmeCube) => ~isSolved(matrix)
    /\ (rotations = ReadmeSolution /\ snapshots[1][1] = ReadmeCube) => isSolved(matrix)

\* C22 witness: the seven rotations were applied to the cube of the example.
ReadmeExampleWitness ==
    /\ lastOp = "applyRotation"
    /\ rotations = ReadmeSolution
    /\ snapshots[1][1] = ReadmeCube
    /\ ~isSolved(snapshots[1][1])

\* C24: (R, U, RI, UI) applied 6 times leaves every cell of every face as it
\* was, whatever the cube it is applied to.
KnownSequenceIdentity ==
    (/\ lastOp = "applySolution"
     /\ Len(rotations) >= Len(KnownSequenceLoop)
     /\ SubSeq(rotations, Len(rotations) - Len(KnownSequenceLoop) + 1, Len(rotations))
            = KnownSequenceLoop) =>
        matrix = snapshots[Len(snapshots) - Len(KnownSequenceLoop)][1]

\* C24 witness: the 24 rotations were applied to a cube with a mixed TOP face,
\* and half way through the cube was another one.
KnownSequenceIdentityWitness ==
    /\ lastOp = "applySolution"
    /\ Len(rotations) > Len(KnownSequenceLoop)
    /\ LoopRuns(rotations) = cFace
    /\ ~FaceUniform(matrix, TOP)
    /\ snapshots[Len(snapshots) - 2 * Len(KnownSequence)][1] # matrix

\* the four faces around the cube's vertical axis
SideFaces == {FRONT, RIGHT, BACK, LEFT}

\* C23: U takes the top row of RIGHT to FRONT, of BACK to RIGHT, of LEFT to
\* BACK and of FRONT to LEFT; D takes the bottom row of LEFT to FRONT, of FRONT
\* to RIGHT, of RIGHT to BACK and of BACK to LEFT; DI takes the bottom rows the
\* opposite way; the other row of each of the four faces stays as it was.
RowCycles ==
    [][/\ (lastOp' = "applyRotation" /\ Last(rotations') = U) =>
            /\ matrix'[FRONT][0] = matrix[RIGHT][0]
            /\ matrix'[RIGHT][0] = matrix[BACK][0]
            /\ matrix'[BACK][0] = matrix[LEFT][0]
            /\ matrix'[LEFT][0] = matrix[FRONT][0]
            /\ \A f \in SideFaces : matrix'[f][1] = matrix[f][1]
       /\ (lastOp' = "applyRotation" /\ Last(rotations') = D) =>
            /\ matrix'[FRONT][1] = matrix[LEFT][1]
            /\ matrix'[RIGHT][1] = matrix[FRONT][1]
            /\ matrix'[BACK][1] = matrix[RIGHT][1]
            /\ matrix'[LEFT][1] = matrix[BACK][1]
            /\ \A f \in SideFaces : matrix'[f][0] = matrix[f][0]
       /\ (lastOp' = "applyRotation" /\ Last(rotations') = DI) =>
            /\ matrix'[LEFT][1] = matrix[FRONT][1]
            /\ matrix'[FRONT][1] = matrix[RIGHT][1]
            /\ matrix'[RIGHT][1] = matrix[BACK][1]
            /\ matrix'[BACK][1] = matrix[LEFT][1]
            /\ \A f \in SideFaces : matrix'[f][0] = matrix[f][0]]_vars

\* C23 witness: D was applied to a cube whose side faces had mixed bottom rows
\* and top rows that differ from the bottom rows.
RowCyclesWitness ==
    /\ lastOp = "applyRotation"
    /\ Last(rotations) = D
    /\ Len(rotations) = 3
    /\ matrix[FRONT][1][0] # matrix[FRONT][1][1]
    /\ \A f \in SideFaces : matrix[f][0] # matrix[f][1]

\* a sticker array in which every cell holds its own position
LabelCube == [face \in Faces |-> [i \in Rows |-> [j \in Cols |->
                 cRow * cCol * face + cCol * i + j]]]

\* the face opposite to a face
oppositeFace(face) ==
    CASE face = TOP -> BOTTOM
      [] face = BOTTOM -> TOP
      [] face = FRONT -> BACK
      [] face = BACK -> FRONT
      [] face = RIGHT -> LEFT
      [] face = LEFT -> RIGHT

\* the cells of a face whose content differs between two sticker arrays
ChangedCells(m1, m2, face) ==
    {c \in Rows \X Cols : m1[face][c[1]][c[2]] # m2[face][c[1]][c[2]]}

\* rotation r, seen on the cube of positions: the turned face keeps its own
\* four cells, all moved, in one 4-cycle; each of the four neighbouring faces
\* has exactly 2 cells moved; the 8 moved side cells go round in 4-cycles (all
\* are still displaced after two turns and back after four); the opposite
\* face is untouched.
Footprint(r) ==
    LET once == applyRotationInternal(LabelCube, r)
        twice == applyRotationInternal(once, r)
        fourTimes == applyRotationInternal(applyRotationInternal(twice, r), r)
        face == turnedFace(r)
        neighbours == Faces \ {face, oppositeFace(face)}
    IN  /\ {once[face][i][j] : i \in Rows, j \in Cols}
             = {LabelCube[face][i][j] : i \in Rows, j \in Cols}
        /\ Cardinality(ChangedCells(once, LabelCube, face)) = cRow * cCol
        /\ Cardinality(ChangedCells(twice, LabelCube, face)) = cRow * cCol
        /\ \A g \in neighbours : Cardinality(ChangedCells(once, LabelCube, g)) = 2
        /\ \A g \in neighbours :
              ChangedCells(twice, LabelCube, g) = ChangedCells(once, LabelCube, g)
        /\ fourTimes = LabelCube
        /\ once[oppositeFace(face)] = LabelCube[oppositeFace(face)]

HeuristicGrows ==
    /\ heuristic(matrix) >= 0
    /\ (lastOp = "applyRotation" /\ calls = 1) => heuristic(matrix) > heuristic(DefaultCube)

\* C26 witness: F was applied to the solved cube of construction.
HeuristicGrowsWitness ==
    /\ lastOp = "applyRotation"
    /\ calls = 1
    /\ rotations = <<F>>
    /\ snapshots[1][1] = DefaultCube
    /\ isSolved(snapshots[1][1])

\* C27: whenever idaStarRecursive returns false, the stickers and the log are
\* what they were when that call was entered; so after every failed pass, and
\* when the search gives up, the cube is the scrambled cube the search got.
BacktrackingRestores ==
    /\ pc = "fail" => <<matrix, rotations>> = Last(snapshots)
    /\ lastOp = "passFailed" => (matrix = startMatrix /\ rotations = startLog)
    /\ (pc = "done" /\ lastOp = "idaStarLoop") =>
          (matrix = startMatrix /\ rotations = startLog)

\* C28: when a pass has returned true and idaStar has not yet replayed the
\* solution, the stickers are those of the scrambled cube the search got.
SuccessLeavesScramble == pc = "found" => matrix = startMatrix

\* C29: when a pass with depth bound d records a solution, the solution has at
\* most d rotations: no solved node is accepted deeper than the bound.
SolutionWithinBound == solutionFound => Len(solution) <= depthLimit

\* C30: the first depth bound is max(heuristic(), 1); a pass is started only
\* while no solution is recorded and the bound is at most 20; after a failed
\* pass the bound is the previous one plus 1, and nothing else changes it; once
\* a pass has recorded a solution no pass is started any more.
BoundSchedule ==
    [][/\ (pc = "idle" /\ pc' = "while") =>
            depthLimit' = (IF heuristic(matrix) > 1 THEN heuristic(matrix) ELSE 1)
       /\ (pc = "while" /\ pc' = "enter") =>
            (~solutionFound /\ depthLimit <= DepthCap /\ depthLimit' = depthLimit)
       /\ (pc = "fail" /\ pc' = "while") => depthLimit' = depthLimit + 1
       /\ depthLimit' # depthLimit => pc' = "while"
       /\ (~solutionFound /\ solutionFound') => pc' = "found"
       /\ solutionFound => (solutionFound' /\ pc' \in {"found", "done"})]_vars

\* C30 witness: the pass of bound 2 is started after the pass of bound 1, the
\* first bound, has failed.
BoundScheduleWitness ==
    /\ pc = "enter"
    /\ lastOp = "idaStarLoop"
    /\ depthLimit = 2
    /\ heuristic(startMatrix) <= 1
    /\ ~solutionFound

\* C31: the visited set is empty when a pass starts, and within a pass no
\* layout has rotations applied from it by more than one node: when the for
\* loop of a node below the root is about to apply a rotation to a layout whose
\* fingerprint is in the set, that layout is the one the node entered with
\* and recorded (the snapshot taken when its rotation was applied).
NoLayoutExpandedTwice ==
    /\ (pc = "enter" /\ lastOp = "idaStarLoop") => visitedStates = {}
    /\ (/\ pc = "loop"
        /\ path # <<>>
        /\ Candidates # {}
        /\ getStateHash(matrix) \in visitedStates) => matrix = Last(snapshots)[1]

\* C32: an unsolved node at depth k with k + heuristic() above the bound
\* returns false with the visited set, the stickers, the log and the path as
\* they were; so the for loop runs, and a rotation is applied by the search,
\* only in a node whose depth is at most the bound.
HeuristicCut ==
    /\ [](pc = "loop" => currentDepth <= depthLimit)
    /\ [][/\ (/\ pc = "enter"
               /\ ~isSolved(matrix)
               /\ currentDepth + heuristic(matrix) > depthLimit) =>
                  /\ pc' = "fail"
                  /\ visitedStates' = visitedStates
                  /\ matrix' = matrix /\ rotations' = rotations /\ path' = path
          /\ Len(path') > Len(path) => (pc = "loop" /\ Len(path) <= depthLimit)]_vars

\* C32 witness: a node below the root was cut by the heuristic test, and its
\* fingerprint is not in the visited set.
HeuristicCutWitness ==
    /\ pc = "fail"
    /\ lastOp = "idaStarRecursive"
    /\ path # <<>>
    /\ currentDepth + heuristic(matrix) > depthLimit
    /\ getStateHash(matrix) \notin visitedStates

\* C33: applyRotation(r) appends the one entry r to the log and changes the
\* stickers as the silent applyRotationInternal(r) does, which has no log to
\* write; undoRotation(r) applies inverse(r) to the stickers, removes the last
\* entry of a non-empty log and nothing else, and leaves an empty log empty.
LoggingDiscipline ==
    [][/\ lastOp' = "applyRotation" =>
            /\ rotations' # <<>>
            /\ Last(rotations') \in Rotation
            /\ rotations' = Append(rotations, Last(rotations'))
            /\ matrix' = applyRotationInternal(matrix, Last(rotations'))
       /\ lastOp' = "undoRotation" =>
            /\ rotations' = (IF rotations = <<>> THEN <<>> ELSE Front(rotations))
            /\ \E r \in Rotation :
                  /\ rotations # <<>> => r = Last(rotations)
                  /\ matrix' = applyRotationInternal(matrix, inverseRotation[r])]_vars

\* C33 witness: undoRotation was called on a cube with an empty log and turned
\* it, and the log is still empty.
LoggingDisciplineWitness ==
    /\ lastOp = "undoRotation"
    /\ calls = 1
    /\ rotations = <<>>
    /\ matrix # DefaultCube

\* C34: for every cube and every rotation, the number of cells that differ
\* from cell [0][0] of their face is, after the rotation, lower by 8 at most.
CorrectsAtMostEight ==
    \A r \in Rotation :
        Misplaced(applyRotationInternal(matrix, r)) >= Misplaced(matrix) - 8

\* C35: the search with isRedundantMove replaced by constant false and the
\* search as written end alike on the same scramble: when the search without
\* pruning has recorded a solution in the pass of bound d, the search as
\* written has recorded one in its pass of bound d too, and when it is over
\* without one, so is the search as written.
PruningIsOptimisation ==
    (~pruning /\ lastOp # "construct" /\ (solutionFound \/ SearchOver)) =>
        prunedRun = <<solutionFound, depthLimit>>

\* C36: at entry to every call of idaStarRecursive the log is the log idaStar
\* was called with followed by the path, so its length is the length before
\* the search plus the depth; and every undoRotation(r) of the search, where r
\* is the last rotation of the path, removes a last entry of the log equal to r.
LogFollowsPath ==
    /\ [](pc = "enter" =>
            /\ rotations = startLog \o path
            /\ Len(rotations) = Len(startLog) + currentDepth)
    /\ [][(pc = "fail" /\ pc' = "loop") =>
            /\ rotations # <<>>
            /\ Last(rotations) = Last(path)
            /\ rotations' = Front(rotations)
            /\ path' = Front(path)]_vars

\* C36 witness: a call at depth 2 is entered on a cube that had a log before
\* the search, after an earlier rotation of the same frame was undone.
LogFollowsPathWitness ==
    /\ pc = "enter"
    /\ currentDepth = 2
    /\ startLog # <<>>
    /\ path[2] >= R
    /\ rotations = startLog \o path

\* C37: on every cube reached from the constructed cube by rotations, as all
\* the cubes of a scramble and of the search are, a cube that isSolved()
\* accepts has BOTTOM, BACK and LEFT uniform too: all six faces are uniform.
HiddenFacesFollow ==
    isSolved(matrix) =>
        \A f \in {BOTTOM, BACK, LEFT} : FaceUniform(matrix, f)

====
